---------------------------- MODULE Spec2Model ----------------------------
(***************************************************************************)
(* Model of webpack's serialization layer:                                 *)
(*   lib/serialization/ObjectMiddleware.js  (registry, serialize,          *)
(*                                            deserialize)                 *)
(*   lib/serialization/Serializer.js        (middleware pipeline)          *)
(*   lib/util/serialization (part_000)      (startup registrations)        *)
(*   lib/util/makeSerializable (part_001)   (PropertiesSerializer)         *)
(***************************************************************************)
EXTENDS Integers, Sequences, FiniteSets, TLC

VARIABLES
    serializers,        \* Map Constructor -> {request, exportName, serializer}
    globalSerializers,  \* Map exportName -> serializer
    lastRegister,       \* the last ObjectMiddleware.register call and its outcome
    ser,                \* the last ObjectMiddleware.serialize call
    stream,             \* the item sequence stored for deserialize
    origin,             \* where stream comes from
    de,                 \* the last ObjectMiddleware.deserialize call
    pipe,               \* the Serializer call (serializeToFile, deserializeFromFile) in progress
    middlewares,        \* the Serializer's this.middlewares
    lazy,               \* the invocations of a function found in the stored items
    calls               \* two callers' serialize/deserialize calls, side by side

vars == <<serializers, globalSerializers, lastRegister, ser, stream, origin, de, pipe,
          middlewares, lazy, calls>>

(***************************************************************************)
(* Bounds of the model.                                                    *)
(***************************************************************************)
\* longest data sequence handed to serialize
MaxData == 2
\* nesting depth of process() at which the JavaScript call stack is exhausted
MaxStack == 4
\* how often the functions of one stream are invoked
MaxInvocations == 2

(***************************************************************************)
(* JavaScript values.  Objects and buffers have identity (an id), strings  *)
(* and numbers are compared by value, as Map keys are (SameValueZero).     *)
(***************************************************************************)
Null == [k |-> "null"]
Undefined == [k |-> "undefined"]
Num(n) == [k |-> "number", n |-> n]
Str(s) == [k |-> "string", s |-> s]
Buf(i) == [k |-> "buffer", id |-> i]
Obj(i) == [k |-> "object", id |-> i]
Fn(i) == [k |-> "function", fn |-> i]

\* typeof item
TypeOf(v) == IF v.k \in {"null", "buffer", "object"} THEN "object" ELSE v.k

\* Buffer.isBuffer(item)
IsBuffer(v) == v.k = "buffer"

ESCAPE == Null
ESCAPE_ESCAPE_VALUE == Num(1)
GLOBAL_SERIALIZER_REQUEST == Null

(***************************************************************************)
(* Serializer capabilities.                                                *)
(***************************************************************************)
plainObjectSerializer == [kind |-> "PlainObjectSerializer"]
CachedSourceSerializer == [kind |-> "CachedSourceSerializer"]
RawSourceSerializer == [kind |-> "RawSourceSerializer"]

PropertiesSerializer(Constructor, properties, onRestored) ==
    [kind |-> "PropertiesSerializer", Constructor |-> Constructor,
     properties |-> properties, onRestored |-> onRestored]

\* the capabilities makeSerializable builds for the two application classes
SerializerA == PropertiesSerializer("ClassA", <<"a", "b">>, TRUE)
SerializerB == PropertiesSerializer("ClassB", <<"x">>, FALSE)

\* an Error object: its message and, where the message names a type, the type
Error(message, about) == [error |-> message, about |-> about]

(***************************************************************************)
(* The registry as the module leaves it when it is loaded.                 *)
(***************************************************************************)
InitialSerializers ==
    ("Object" :> [request |-> GLOBAL_SERIALIZER_REQUEST, exportName |-> Null,
                  serializer |-> plainObjectSerializer])
    @@ ("Array" :> [request |-> GLOBAL_SERIALIZER_REQUEST, exportName |-> Null,
                    serializer |-> plainObjectSerializer])

InitialGlobalSerializers == (Null :> plainObjectSerializer)

NoCall == [called |-> FALSE]

(***************************************************************************)
(* ObjectMiddleware.register: the registry after the call, and whether it  *)
(* threw.                                                                  *)
(***************************************************************************)
\* faulty variant: the name collision is not looked for
RegisterNeverThrows(request, exportName) == FALSE

RegisterThrows(request, exportName) ==
    request = GLOBAL_SERIALIZER_REQUEST /\ exportName \in DOMAIN globalSerializers

\* faulty variant: the global-name table is not written
RegisterGlobalsNot(request, exportName, serializer) == globalSerializers

\* if (request === GLOBAL_SERIALIZER_REQUEST) globalSerializers.set(exportName, serializer)
RegisterGlobals(request, exportName, serializer) ==
    IF request = GLOBAL_SERIALIZER_REQUEST
    THEN (exportName :> serializer) @@ globalSerializers
    ELSE globalSerializers

\* faulty variant: a class that has an entry keeps it
RegisterKeepsEntry(Constructor, request, exportName, serializer) ==
    serializers @@ (Constructor :> [request |-> request, exportName |-> exportName,
                                    serializer |-> serializer])

RegisterSerializers(Constructor, request, exportName, serializer) ==
    (Constructor :> [request |-> request, exportName |-> exportName,
                     serializer |-> serializer]) @@ serializers

\* the arguments and outcome of one call; repeat: the call before it had the same
\* arguments and returned normally
RegisterCall(Constructor, request, exportName, serializer) ==
    [called |-> TRUE, Constructor |-> Constructor, request |-> request,
     exportName |-> exportName, serializer |-> serializer,
     threw |-> RegisterThrows(request, exportName),
     before |-> [serializers |-> serializers, globalSerializers |-> globalSerializers],
     repeat |-> /\ lastRegister.called
                /\ ~lastRegister.threw
                /\ lastRegister.Constructor = Constructor
                /\ lastRegister.request = request
                /\ lastRegister.exportName = exportName
                /\ lastRegister.serializer = serializer]

register(Constructor, request, exportName, serializer) ==
    /\ lastRegister' = RegisterCall(Constructor, request, exportName, serializer)
    /\ IF RegisterThrows(request, exportName)
       THEN UNCHANGED <<serializers, globalSerializers>>
       ELSE /\ globalSerializers' = RegisterGlobals(request, exportName, serializer)
            /\ serializers' =
                   RegisterSerializers(Constructor, request, exportName, serializer)

registerGlobal(Constructor, name, serializer) ==
    register(Constructor, GLOBAL_SERIALIZER_REQUEST, name, serializer)


(***************************************************************************)
(* The application's objects: constructor and own properties.  Objects 2   *)
(* shares object 1 twice, 5 refers to itself, 4 is of a class nobody       *)
(* registered, 6 holds it, 7 holds a Buffer, 8 holds a function.           *)
(***************************************************************************)
Heap ==
    <<[type |-> "ClassA", fields |-> ("a" :> Str("s")) @@ ("b" :> Null)],
      [type |-> "ClassA", fields |-> ("a" :> Obj(1)) @@ ("b" :> Obj(1))],
      [type |-> "RawSource", fields |-> ("_value" :> Str("s"))],
      [type |-> "Unregistered", fields |-> <<>>],
      [type |-> "ClassA", fields |-> ("a" :> Obj(5)) @@ ("b" :> Num(1))],
      [type |-> "ClassB", fields |-> ("x" :> Obj(4))],
      [type |-> "RawSource", fields |-> ("_value" :> Buf(1))],
      [type |-> "ClassB", fields |-> ("x" :> Fn(2))]>>

\* the functions of the model, deferred producers, and what each returns when
\* called: Fn(1) an array, Fn(2) a Promise of one
Producers ==
    <<[async |-> FALSE, result |-> <<Obj(1), Str("s"), Str("s")>>],
      [async |-> TRUE, result |-> <<Obj(2), Str("t")>>]>>

\* const r = fn()
CallProducer(fn) == Producers[fn.fn]

\* the values a data sequence is drawn from
Values ==
    {Null, Undefined, Num(1), Str("s"), Str("t"), Buf(1), Fn(1), Fn(2)}
        \cup {Obj(i) : i \in DOMAIN Heap}

RECURSIVE SeqsUpTo(_, _)
SeqsUpTo(S, n) ==
    IF n = 0 THEN {<<>>}
    ELSE LET shorter == SeqsUpTo(S, n - 1)
         IN shorter \cup {Append(q, v) : q \in {x \in shorter : Len(x) = n - 1}, v \in S}

DataInputs == SeqsUpTo(Values, MaxData)

\* object.constructor
ConstructorOf(heap, v) == IF IsBuffer(v) THEN "Buffer" ELSE heap[v.id].type

\* obj[prop]
Get(heap, v, prop) ==
    IF prop \in DOMAIN heap[v.id].fields THEN heap[v.id].fields[prop] ELSE Undefined

(***************************************************************************)
(* ObjectMiddleware.serialize.  The state of one call: result, currentPos, *)
(* referenceable, the pending exception (err), and a record of the         *)
(* traversal: the items process() was entered with (visited) and, for each *)
(* completed process() call, what it emitted (log).                        *)
(***************************************************************************)
NoError == [error |-> "none"]

\* faulty variant: the table and the counter of the serialize call before are
\* carried on
SerStartShared ==
    [result |-> <<>>, currentPos |-> IF ser.called THEN ser.currentPos ELSE 0,
     referenceable |-> IF ser.called THEN ser.referenceable ELSE <<>>, err |-> NoError,
     visited |-> <<>>, log |-> <<>>]

\* the locals of a serialize call as it starts
SerStart ==
    [result |-> <<>>, currentPos |-> 0, referenceable |-> <<>>, err |-> NoError,
     visited |-> <<>>, log |-> <<>>]

\* faulty variant: an unregistered class falls back to another class's config
getSerializerForOrDefault(item) ==
    LET c == ConstructorOf(Heap, item)
    IN [ok |-> TRUE,
        config |-> IF c \in DOMAIN serializers THEN serializers[c] ELSE serializers["ClassB"]]

\* ObjectMiddleware.getSerializerFor(object): the config, or the error thrown
getSerializerFor(item) ==
    LET c == ConstructorOf(Heap, item)
    IN IF c \in DOMAIN serializers
       THEN [ok |-> TRUE, config |-> serializers[c]]
       ELSE [ok |-> FALSE, err |-> Error("No serializer registered for", c)]

\* faulty variant: the position is counted but the item is not entered
SerCountOnly(item, st) == [st EXCEPT !.currentPos = @ + 1]

\* addReferenceable(item): referenceable.set(item, currentPos++)
SerAddReferenceable(item, st) ==
    [st EXCEPT !.referenceable = (item :> st.currentPos) @@ @,
               !.currentPos = @ + 1]

\* result.push(...items)
Push(st, items) == [st EXCEPT !.result = @ \o items]

\* faulty variant: null is pushed as it is
PushNullVerbatim(st) == Push(st, <<ESCAPE>>)

\* result.push(ESCAPE, ESCAPE_ESCAPE_VALUE)
PushEscaped(st) == Push(st, <<ESCAPE, ESCAPE_ESCAPE_VALUE>>)

\* this._handleFunctionSerialization(item): the thunk put in the stream
LazySerialize(item) == [k |-> "function", lazy |-> "serialize", producer |-> item]

\* faulty variant: the object is entered into the table when its header is pushed
PushHeaderAndRegister(st, item, config) ==
    SerAddReferenceable(item, Push(st, <<ESCAPE, config.request, config.exportName>>))

\* result.push(ESCAPE, request, exportName)
PushHeader(st, item, config) ==
    Push(st, <<ESCAPE, config.request, config.exportName>>)

\* faulty variant: the offset is counted from the entry to the current position
PushReferenceForward(st, item) ==
    Push(st, <<ESCAPE, Num(st.currentPos - st.referenceable[item])>>)

\* const ref = referenceable.get(item); result.push(ESCAPE, ref - currentPos)
PushReference(st, item) ==
    Push(st, <<ESCAPE, Num(st.referenceable[item] - st.currentPos)>>)

\* faulty variant: the function is called at once and what it returns is pushed
\* in its place
PushProduced(st, item) == Push(st, CallProducer(item).result)

\* result.push(this._handleFunctionSerialization(item))
PushThunk(st, item) == Push(st, <<LazySerialize(item)>>)

\* the record of one completed process(item) call
Logged(before, after, item, how, depth) ==
    [after EXCEPT !.log = Append(@, [item |-> item, how |-> how, depth |-> depth,
        from |-> Len(before.result) + 1, to |-> Len(after.result),
        posBefore |-> before.currentPos, posAfter |-> after.currentPos,
        tableBefore |-> before.referenceable, tableAfter |-> after.referenceable])]

RECURSIVE process(_, _, _)
RECURSIVE SerializerSerialize(_, _, _, _)
RECURSIVE WriteProperties(_, _, _, _, _)

\* process(item), entered at nesting depth `depth`
process(item, st0, depth) ==
    IF st0.err # NoError THEN st0
    ELSE IF depth > MaxStack
    THEN [st0 EXCEPT !.err = Error("Maximum call stack size exceeded", "RangeError")]
    ELSE
    LET st == [st0 EXCEPT !.visited = Append(@, item)]
    IN IF item \in DOMAIN st.referenceable
       THEN Logged(st, PushReference(st, item), item, "reference", depth)
       ELSE IF TypeOf(item) = "object" /\ item # Null
       THEN LET found == getSerializerFor(item)
            IN IF ~found.ok THEN [st EXCEPT !.err = found.err]
               ELSE LET header == PushHeader(st, item, found.config)
                        written == SerializerSerialize(found.config.serializer, item,
                                                       header, depth)
                    IN IF written.err # NoError THEN written
                       ELSE Logged(st, SerAddReferenceable(item, written),
                                   item, "object", depth)
       ELSE IF TypeOf(item) = "string"
       THEN Logged(st, Push(SerAddReferenceable(item, st), <<item>>),
                   item, "string", depth)
       ELSE IF IsBuffer(item)
       THEN Logged(st, Push(SerAddReferenceable(item, st), <<item>>),
                   item, "buffer", depth)
       ELSE IF item = ESCAPE
       THEN Logged(st, PushEscaped(st), item, "escape", depth)
       ELSE IF TypeOf(item) = "function"
       THEN Logged(st, PushThunk(st, item), item, "function", depth)
       ELSE Logged(st, Push(st, <<item>>), item, "other", depth)

\* for (const prop of this.properties) write(obj[prop])
WriteProperties(properties, i, obj, st, depth) ==
    IF i > Len(properties) THEN st
    ELSE WriteProperties(properties, i + 1, obj,
                         process(Get(Heap, obj, properties[i]), st, depth + 1), depth)

\* serializer.serialize(item, {write}) of the capabilities whose code is modelled
SerializerSerialize(serializer, item, st, depth) ==
    CASE serializer.kind = "PropertiesSerializer" ->
            WriteProperties(serializer.properties, 1, item, st, depth)
      [] serializer.kind = "RawSourceSerializer" ->
            process(Get(Heap, item, "_value"), st, depth + 1)

RECURSIVE ProcessAll(_, _, _)
\* for (const item of data) process(item)
ProcessAll(data, i, st) ==
    IF i > Len(data) THEN st ELSE ProcessAll(data, i + 1, process(data[i], st, 1))

\* serialize(data, context): the call's record; result is what the caller gets
serialize(data) ==
    LET st == ProcessAll(data, 1, SerStart)
    IN [called |-> TRUE, data |-> data, threw |-> st.err # NoError, error |-> st.err,
        result |-> IF st.err # NoError THEN <<>> ELSE st.result,
        emitted |-> st.result, currentPos |-> st.currentPos,
        referenceable |-> st.referenceable, visited |-> st.visited, log |-> st.log]

(***************************************************************************)
(* ObjectMiddleware.deserialize.  The state of one call: the read cursor   *)
(* currentDataPos, currentPos, referenceable, the objects constructed so   *)
(* far (heap), the pending exception (err), the value the last step        *)
(* returned, and a record of each completed decodeValue() call (log).      *)
(***************************************************************************)
\* require(request): the modules that export the application classes
Modules == ("lib/ClassA" :> "ClassA") @@ ("lib/ClassB" :> "ClassB")

\* if (exportName): JavaScript truthiness
Truthy(v) ==
    CASE v.k \in {"null", "undefined"} -> FALSE
      [] v.k = "number" -> v.n # 0
      [] v.k = "string" -> v.s # ""
      [] OTHER -> TRUE

\* faulty variant: the cursor, the counter and the table of the deserialize call
\* before are carried on
DeStartShared(data) ==
    [data |-> data, currentDataPos |-> IF de.called THEN Len(de.data) ELSE 0,
     currentPos |-> IF de.called THEN de.currentPos ELSE 0,
     referenceable |-> IF de.called THEN de.referenceable ELSE <<>>,
     heap |-> <<>>, err |-> NoError, value |-> Undefined, log |-> <<>>]

\* the locals of a deserialize call as it starts
DeStart(data) ==
    [data |-> data, currentDataPos |-> 0, currentPos |-> 0, referenceable |-> <<>>,
     heap |-> <<>>, err |-> NoError, value |-> Undefined, log |-> <<>>]

\* faulty variant: no bounds check, a read past the end gives undefined
readUnchecked(st) ==
    IF st.err # NoError THEN st
    ELSE [st EXCEPT !.value = IF st.currentDataPos < Len(st.data)
                               THEN st.data[st.currentDataPos + 1] ELSE Undefined,
                    !.currentDataPos = @ + 1]

\* read(): data[currentDataPos++], or the end-of-stream error
read(st) ==
    IF st.err # NoError THEN st
    ELSE IF st.currentDataPos >= Len(st.data)
    THEN [st EXCEPT !.err = Error("Unexpected end of stream", "Error")]
    ELSE [st EXCEPT !.value = st.data[st.currentDataPos + 1], !.currentDataPos = @ + 1]

\* faulty variant: the item is entered but the position is not counted
DeSetOnly(item, st) == [st EXCEPT !.referenceable = (st.currentPos :> item) @@ @]

\* addReferenceable(item): referenceable.set(currentPos++, item)
DeAddReferenceable(item, st) ==
    [st EXCEPT !.referenceable = (st.currentPos :> item) @@ @,
               !.currentPos = @ + 1]

\* referenceable.get(currentPos + nextItem)
DeReference(st, offset) ==
    IF st.currentPos + offset \in DOMAIN st.referenceable
    THEN st.referenceable[st.currentPos + offset]
    ELSE Undefined

\* this._handleFunctionDeserialization(item, context): the deferred value returned
LazyDeserialize(item) == [k |-> "function", lazy |-> "deserialize", producer |-> item]

\* the serializer a header (request, exportName) resolves to, or the error thrown
ResolveSerializer(request, exportName) ==
    IF request = GLOBAL_SERIALIZER_REQUEST
    THEN IF exportName \in DOMAIN globalSerializers
         THEN [ok |-> TRUE, serializer |-> globalSerializers[exportName]]
         ELSE [ok |-> FALSE,
               err |-> Error("Cannot read property 'deserialize' of undefined", "TypeError")]
    ELSE IF ~(request.k = "string" /\ request.s \in DOMAIN Modules)
    THEN [ok |-> FALSE, err |-> Error("Cannot find module", "Error")]
    ELSE IF Truthy(exportName)
    THEN [ok |-> FALSE,
          err |-> Error("Cannot read property 'name' of undefined", "TypeError")]
    ELSE IF Modules[request.s] \in DOMAIN serializers
    THEN [ok |-> TRUE, serializer |-> serializers[Modules[request.s]].serializer]
    ELSE [ok |-> FALSE,
          err |-> Error("No deserializer registered for", Modules[request.s])]

\* new Constructor(): a fresh object, no property assigned yet.  Kept with the
\* object: the properties in the order they were assigned (order), how often
\* onRestored was called with it (restored) and the properties it had then (seen)
New(st, Constructor) ==
    [st EXCEPT !.heap = Append(@, [type |-> Constructor, fields |-> <<>>, order |-> <<>>,
                                   restored |-> 0, seen |-> <<>>]),
               !.value = Obj(Len(st.heap) + 1)]

\* obj[prop] = value
Assign(st, id, prop, value) ==
    [st EXCEPT !.heap[id].fields = (prop :> value) @@ @,
               !.heap[id].order = Append(@, prop)]

\* this.onRestored(obj)
OnRestored(st, id) ==
    [st EXCEPT !.heap[id].restored = @ + 1,
               !.heap[id].seen = st.heap[id].fields]

DeLogged(before, after, how, depth) ==
    [after EXCEPT !.log = Append(@, [value |-> after.value, how |-> how, depth |-> depth,
        from |-> before.currentDataPos + 1, to |-> after.currentDataPos,
        posBefore |-> before.currentPos, posAfter |-> after.currentPos,
        tableBefore |-> before.referenceable, tableAfter |-> after.referenceable])]

RECURSIVE decodeValue(_, _)
RECURSIVE SerializerDeserialize(_, _, _)
RECURSIVE ReadProperties(_, _, _, _, _)

\* decodeValue(): the state after the call; the decoded value is in .value
decodeValue(st, depth) ==
    LET first == read(st)
        item == first.value
    IN IF first.err # NoError THEN first
       ELSE IF item = ESCAPE
       THEN LET second == read(first)
                nextItem == second.value
            IN IF second.err # NoError THEN second
               ELSE IF nextItem = ESCAPE_ESCAPE_VALUE
               THEN DeLogged(st, [second EXCEPT !.value = ESCAPE], "escape", depth)
               ELSE IF TypeOf(nextItem) = "number"
               THEN DeLogged(st, [second EXCEPT !.value = DeReference(second, nextItem.n)],
                             "reference", depth)
               ELSE LET third == read(second)
                        found == ResolveSerializer(nextItem, third.value)
                    IN IF third.err # NoError THEN third
                       ELSE IF ~found.ok THEN [third EXCEPT !.err = found.err]
                       ELSE LET built == SerializerDeserialize(found.serializer, third, depth)
                            IN IF built.err # NoError THEN built
                               ELSE DeLogged(st, DeAddReferenceable(built.value, built),
                                             "object", depth)
       ELSE IF TypeOf(item) = "string"
       THEN DeLogged(st, DeAddReferenceable(item, first), "string", depth)
       ELSE IF IsBuffer(item)
       THEN DeLogged(st, DeAddReferenceable(item, first), "buffer", depth)
       ELSE IF TypeOf(item) = "function"
       THEN DeLogged(st, [first EXCEPT !.value = LazyDeserialize(item)], "function", depth)
       ELSE DeLogged(st, first, "other", depth)

RECURSIVE ReadPropertiesBackwards(_, _, _, _, _)
\* faulty variant: the properties are assigned from the last to the first
ReadPropertiesBackwards(properties, i, id, st, depth) ==
    IF i > Len(properties) \/ st.err # NoError THEN st
    ELSE LET got == decodeValue(st, depth + 1)
         IN ReadPropertiesBackwards(properties, i + 1, id,
                IF got.err # NoError THEN got
                ELSE Assign(got, id, properties[Len(properties) + 1 - i], got.value),
                depth)

\* for (const prop of this.properties) obj[prop] = read()
ReadProperties(properties, i, id, st, depth) ==
    IF i > Len(properties) \/ st.err # NoError THEN st
    ELSE LET got == decodeValue(st, depth + 1)
         IN ReadProperties(properties, i + 1, id,
                IF got.err # NoError THEN got ELSE Assign(got, id, properties[i], got.value),
                depth)

\* serializer.deserialize({read}) of the capabilities whose code is modelled
SerializerDeserialize(serializer, st, depth) ==
    CASE serializer.kind = "PropertiesSerializer" ->
            LET fresh == New(st, serializer.Constructor)
                id == fresh.value.id
                filled == ReadProperties(serializer.properties, 1, id, fresh, depth)
            IN IF filled.err # NoError THEN filled
               ELSE [(IF serializer.onRestored THEN OnRestored(filled, id) ELSE filled)
                        EXCEPT !.value = Obj(id)]
      [] serializer.kind = "RawSourceSerializer" ->
            LET source == decodeValue(st, depth + 1)
            IN IF source.err # NoError THEN source
               ELSE LET fresh == New(source, "RawSource")
                    IN Assign(fresh, fresh.value.id, "_value", source.value)

RECURSIVE DecodeAll(_, _)
\* while (currentDataPos < data.length) result.push(decodeValue())
DecodeAll(st, result) ==
    IF st.err # NoError THEN [st |-> st, result |-> result]
    ELSE IF st.currentDataPos < Len(st.data)
    THEN LET next == decodeValue(st, 1)
         IN DecodeAll(next, IF next.err # NoError THEN result
                            ELSE Append(result, next.value))
    ELSE [st |-> st, result |-> result]

\* deserialize(data, context): the call's record; result is what the caller gets
deserialize(data) ==
    LET done == DecodeAll(DeStart(data), <<>>)
        st == done.st
    IN [called |-> TRUE, data |-> data, threw |-> st.err # NoError, error |-> st.err,
        result |-> IF st.err # NoError THEN <<>> ELSE done.result,
        decoded |-> done.result, heap |-> st.heap, currentPos |-> st.currentPos,
        referenceable |-> st.referenceable, log |-> st.log]

(***************************************************************************)
(* Functions in the data: deferred producers.  A producer called with no   *)
(* argument returns a data array, or a Promise of one.  serialize wraps a  *)
(* producer in a thunk, deserialize wraps that thunk in a deferred value.  *)
(***************************************************************************)
\* the thunk of _handleFunctionSerialization, called: the producer runs; a
\* Promise result is chained (promise), any other result is serialized at once
CallThunk(thunk) ==
    LET r == CallProducer(thunk.producer)
    IN IF r.async THEN [promise |-> TRUE, ser |-> NoCall]
       ELSE [promise |-> FALSE, ser |-> serialize(r.result)]

\* r.then(data => this.serialize(data, context)): the callback, once r is fulfilled
ThunkFulfilled(thunk) == serialize(CallProducer(thunk.producer).result)

\* faulty variant: the thunk's result is handed on undecoded
ReturnUndecoded(encoded) ==
    [called |-> TRUE, data |-> encoded.result, threw |-> FALSE, error |-> NoError,
     result |-> encoded.result, decoded |-> encoded.result, heap |-> <<>>,
     currentPos |-> 0, referenceable |-> <<>>, log |-> <<>>]

\* this.deserialize(r, context) in the function of _handleFunctionDeserialization,
\* r being what the thunk returned or was fulfilled with
DeserializeThunkResult(encoded) == deserialize(encoded.result)

(***************************************************************************)
(* The codec's operations, the registry being as the application's startup *)
(* registrations leave it.                                                 *)
(***************************************************************************)
\* part_000, the two registerGlobal calls; part_001 as called for ClassA and ClassB
StartupSerializers ==
    ("CachedSource" :> [request |-> GLOBAL_SERIALIZER_REQUEST,
                        exportName |-> Str("webpack-source/CachedSource"),
                        serializer |-> CachedSourceSerializer])
    @@ ("RawSource" :> [request |-> GLOBAL_SERIALIZER_REQUEST,
                        exportName |-> Str("webpack-source/RawSource"),
                        serializer |-> RawSourceSerializer])
    @@ ("ClassA" :> [request |-> Str("lib/ClassA"), exportName |-> Null,
                     serializer |-> SerializerA])
    @@ ("ClassB" :> [request |-> Str("lib/ClassB"), exportName |-> Null,
                     serializer |-> SerializerB])
    @@ InitialSerializers

StartupGlobalSerializers ==
    (Str("webpack-source/CachedSource") :> CachedSourceSerializer)
    @@ (Str("webpack-source/RawSource") :> RawSourceSerializer)
    @@ InitialGlobalSerializers

\* new Serializer([new ObjectMiddleware(), new BinaryMiddleware(), new FileMiddleware()])
Middlewares == <<"ObjectMiddleware", "BinaryMiddleware", "FileMiddleware">>

NoPipe == [called |-> FALSE]

\* no function of the stored items was invoked yet
NoLazy == [called |-> FALSE, thunkCalls |-> 0, producerCalls |-> 0]

\* neither caller has started
NoCalls == [c \in {1, 2} |-> [phase |-> "idle"]]

Init ==
    /\ serializers = StartupSerializers
    /\ globalSerializers = StartupGlobalSerializers
    /\ lastRegister = NoCall
    /\ ser = NoCall
    /\ stream = <<>>
    /\ origin = "none"
    /\ de = NoCall
    /\ pipe = NoPipe
    /\ middlewares = Middlewares
    /\ lazy = NoLazy
    /\ calls = NoCalls

\* a caller runs serialize(data), once, and keeps the returned items
Serialize(data) ==
    /\ ~ser.called
    /\ ser' = serialize(data)
    /\ stream' = ser'.result
    /\ origin' = IF ser'.threw THEN "none" ELSE "serialize"
    /\ de' = NoCall
    /\ lazy' = NoLazy
    /\ UNCHANGED <<serializers, globalSerializers, lastRegister, pipe, middlewares, calls>>

\* the stored items are cut short: only the first n are read back
Truncate(n) ==
    /\ origin = "serialize"
    /\ n \in 0..(Len(stream) - 1)
    /\ stream' = SubSeq(stream, 1, n)
    /\ origin' = "truncated"
    /\ de' = NoCall
    /\ lazy' = NoLazy
    /\ UNCHANGED <<serializers, globalSerializers, lastRegister, ser, pipe, middlewares, calls>>

\* what a damaged stream may hold in place of a stored number: another number,
\* or a byte-buffer
TamperValues == {Num(n) : n \in {-2, -1, 0, 2}} \cup {Buf(1)}

\* the stored items are damaged: the number at place i is replaced by v
Tamper(i, v) ==
    /\ origin = "serialize"
    /\ i \in DOMAIN stream
    /\ TypeOf(stream[i]) = "number"
    /\ stream[i] # v
    /\ stream' = [stream EXCEPT ![i] = v]
    /\ origin' = "tampered"
    /\ de' = NoCall
    /\ lazy' = NoLazy
    /\ UNCHANGED <<serializers, globalSerializers, lastRegister, ser, pipe, middlewares, calls>>

\* a caller runs deserialize on the stored items
Deserialize ==
    /\ origin # "none"
    /\ ~de.called
    /\ de' = deserialize(stream)
    /\ UNCHANGED <<serializers, globalSerializers, lastRegister, ser, stream, origin, pipe,
                   middlewares, lazy, calls>>

\* one more invocation may start: none is waiting, and the bound is not reached
MayInvoke ==
    /\ lazy.called => lazy.state = "done"
    /\ lazy.thunkCalls < MaxInvocations

\* the record of an invocation as it starts
LazyStart(i, via, thunk) ==
    [called |-> TRUE, at |-> i, via |-> via, thunk |-> thunk,
     thunkCalls |-> lazy.thunkCalls + 1, producerCalls |-> lazy.producerCalls + 1,
     before |-> [ser |-> ser, stream |-> stream],
     state |-> "pending", ser |-> NoCall, de |-> NoCall]

\* the holder of the stored items (a later middleware) calls the thunk at place i
InvokeThunk(i) ==
    /\ origin = "serialize"
    /\ MayInvoke
    /\ i \in DOMAIN stream
    /\ TypeOf(stream[i]) = "function"
    /\ LET answer == CallThunk(stream[i])
           start == LazyStart(i, "thunk", stream[i])
       IN lazy' = IF answer.promise THEN start
                  ELSE [start EXCEPT !.state = "done", !.ser = answer.ser]
    /\ UNCHANGED <<serializers, globalSerializers, lastRegister, ser, stream, origin, de,
                   pipe, middlewares, calls>>

\* the application calls the deferred value at place i of what deserialize returned
InvokeDeferred(i) ==
    /\ origin = "serialize"
    /\ de.called
    /\ MayInvoke
    /\ i \in DOMAIN de.result
    /\ TypeOf(de.result[i]) = "function"
    /\ LET thunk == de.result[i].producer
           answer == CallThunk(thunk)
           start == LazyStart(i, "deferred", thunk)
       IN lazy' = IF answer.promise THEN start
                  ELSE [start EXCEPT
                          !.state = "done", !.ser = answer.ser,
                          !.de = IF answer.ser.threw THEN NoCall
                                 ELSE DeserializeThunkResult(answer.ser)]
    /\ UNCHANGED <<serializers, globalSerializers, lastRegister, ser, stream, origin, de,
                   pipe, middlewares, calls>>

\* the Promise the producer returned is fulfilled: the thunk's callback serializes
ProducerFulfilled ==
    /\ lazy.called
    /\ lazy.state = "pending"
    /\ LET encoded == ThunkFulfilled(lazy.thunk)
       IN lazy' = [lazy EXCEPT
                      !.ser = encoded,
                      !.state = IF lazy.via = "thunk" \/ encoded.threw THEN "done"
                                ELSE "serialized"]
    /\ UNCHANGED <<serializers, globalSerializers, lastRegister, ser, stream, origin, de,
                   pipe, middlewares, calls>>

\* the thunk's Promise is fulfilled: the deferred value's callback deserializes
ThunkResultArrives ==
    /\ lazy.called
    /\ lazy.state = "serialized"
    /\ lazy' = [lazy EXCEPT !.de = DeserializeThunkResult(lazy.ser), !.state = "done"]
    /\ UNCHANGED <<serializers, globalSerializers, lastRegister, ser, stream, origin, de,
                   pipe, middlewares, calls>>

Next ==
    \/ \E data \in DataInputs : Serialize(data)
    \/ \E n \in 0..Len(stream) : Truncate(n)
    \/ \E i \in DOMAIN stream, v \in TamperValues : Tamper(i, v)
    \/ Deserialize
    \/ \E i \in DOMAIN stream : InvokeThunk(i)
    \/ \E i \in DOMAIN stream : InvokeDeferred(i)
    \/ ProducerFulfilled
    \/ ThunkResultArrives

Spec == Init /\ [][Next]_vars

(***************************************************************************)
(* Two callers using the one ObjectMiddleware side by side.  A caller      *)
(* serializes its data, may call the first thunk of the output, and        *)
(* deserializes the output; serialize and deserialize run to their end     *)
(* once called, so the callers' steps interleave between the calls and     *)
(* while a producer's Promise is pending.                                  *)
(***************************************************************************)
\* the data the two callers serialize
ConcInputs ==
    {<<Str("s"), Fn(2)>>, <<Obj(2), Fn(1)>>, <<Fn(2), Obj(1)>>, <<Null, Str("s")>>}

\* the places of the functions in a sequence of items
FunctionsIn(items) == {i \in DOMAIN items : TypeOf(items[i]) = "function"}

\* the first function of a sequence of items that holds one
FirstFunction(items) ==
    items[CHOOSE i \in FunctionsIn(items) : \A j \in FunctionsIn(items) : i <= j]

ConcInit ==
    /\ serializers = StartupSerializers
    /\ globalSerializers = StartupGlobalSerializers
    /\ lastRegister = NoCall
    /\ ser = NoCall
    /\ stream = <<>>
    /\ origin = "none"
    /\ de = NoCall
    /\ pipe = NoPipe
    /\ middlewares = Middlewares
    /\ lazy = NoLazy
    /\ calls = NoCalls

ConcUnchanged ==
    UNCHANGED <<serializers, globalSerializers, lastRegister, stream, origin, pipe,
                middlewares, lazy>>

\* caller c runs serialize(data)
Begin(c, data) ==
    /\ calls[c].phase = "idle"
    /\ ser' = serialize(data)
    /\ calls' = [calls EXCEPT ![c] = [phase |-> "begun", data |-> data, ser |-> ser',
                                      waiting |-> FALSE, lazy |-> NoCall, de |-> NoCall]]
    /\ UNCHANGED de
    /\ ConcUnchanged

\* caller c calls the first thunk of its output
ThunkCalled(c) ==
    /\ calls[c].phase = "begun"
    /\ ~calls[c].waiting
    /\ ~calls[c].lazy.called
    /\ FunctionsIn(calls[c].ser.result) # {}
    /\ LET answer == CallThunk(FirstFunction(calls[c].ser.result))
       IN IF answer.promise
          THEN /\ calls' = [calls EXCEPT ![c].waiting = TRUE]
               /\ UNCHANGED ser
          ELSE /\ calls' = [calls EXCEPT ![c].lazy = answer.ser]
               /\ ser' = answer.ser
    /\ UNCHANGED de
    /\ ConcUnchanged

\* the Promise of caller c's producer is fulfilled: the thunk's callback serializes
ThunkSettled(c) ==
    /\ calls[c].phase = "begun"
    /\ calls[c].waiting
    /\ ser' = ThunkFulfilled(FirstFunction(calls[c].ser.result))
    /\ calls' = [calls EXCEPT ![c].waiting = FALSE, ![c].lazy = ser']
    /\ UNCHANGED de
    /\ ConcUnchanged

\* caller c runs deserialize on its output
Decode(c) ==
    /\ calls[c].phase = "begun"
    /\ ~calls[c].ser.threw
    /\ ~calls[c].de.called
    /\ de' = deserialize(calls[c].ser.result)
    /\ calls' = [calls EXCEPT ![c].de = de']
    /\ UNCHANGED ser
    /\ ConcUnchanged

ConcNext ==
    \/ \E c \in DOMAIN calls, data \in ConcInputs : Begin(c, data)
    \/ \E c \in DOMAIN calls : ThunkCalled(c)
    \/ \E c \in DOMAIN calls : ThunkSettled(c)
    \/ \E c \in DOMAIN calls : Decode(c)

ConcSpec == ConcInit /\ [][ConcNext]_vars

(***************************************************************************)
(* The registry's operations, from the registry as ObjectMiddleware.js     *)
(* leaves it when loaded, with the arguments callers pass drawn from small *)
(* sets.                                                                   *)
(***************************************************************************)
RegConstructors == {"ClassA", "RawSource"}
RegRequests == {GLOBAL_SERIALIZER_REQUEST, Str("lib/ClassA")}
RegExportNames == {Null, Str("webpack-source/RawSource")}
RegSerializers == {SerializerA, RawSourceSerializer}

RegInit ==
    /\ serializers = InitialSerializers
    /\ globalSerializers = InitialGlobalSerializers
    /\ lastRegister = NoCall
    /\ ser = NoCall
    /\ stream = <<>>
    /\ origin = "none"
    /\ de = NoCall
    /\ pipe = NoPipe
    /\ middlewares = Middlewares
    /\ lazy = NoLazy
    /\ calls = NoCalls

Register(Constructor, request, exportName, serializer) ==
    /\ register(Constructor, request, exportName, serializer)
    /\ UNCHANGED <<ser, stream, origin, de, pipe, middlewares, lazy, calls>>

RegisterGlobal(Constructor, name, serializer) ==
    /\ registerGlobal(Constructor, name, serializer)
    /\ UNCHANGED <<ser, stream, origin, de, pipe, middlewares, lazy, calls>>

RegNext ==
    \/ \E c \in RegConstructors, r \in RegRequests, e \in RegExportNames,
          s \in RegSerializers : Register(c, r, e, s)
    \/ \E c \in RegConstructors, e \in RegExportNames, s \in RegSerializers :
          RegisterGlobal(c, e, s)

RegSpec == RegInit /\ [][RegNext]_vars

(***************************************************************************)
(* Serializer.serializeToFile and Serializer.deserializeFromFile.  The      *)
(* middlewares are other modules: each serialize or deserialize call       *)
(* returns its result at once ("sync"), throws ("throw"), or returns a     *)
(* Promise that is later fulfilled ("async") or rejected ("reject").  A    *)
(* middleware is known by its place in the list the Serializer was built   *)
(* with.  serialize gives its input with the middleware's name appended,   *)
(* deserialize its input with the middleware's name put in front.          *)
(***************************************************************************)
\* the place of a middleware in the list the Serializer was built with
StageOf(name) == CHOOSE k \in DOMAIN Middlewares : Middlewares[k] = name

\* array.reverse(): the elements in reverse order
Reverse(array) == [i \in 1..Len(array) |-> array[Len(array) + 1 - i]]

\* faulty variant: this.middlewares.reverse() reverses the Serializer's own list
ReversedInPlace(list) == [list |-> Reverse(list), order |-> Reverse(list)]

\* this.middlewares.slice().reverse(): list is what this.middlewares holds
\* afterwards, order the array that reduce walks
ReversedCopy(list) == [list |-> list, order |-> Reverse(list)]

\* the callback array => array[0] of deserializeFromFile, as an onFulfilled value
ElementZero == Len(Middlewares) + 1

\* array[0]
ElementZeroOf(array) == IF Len(array) >= 1 THEN array[1] ELSE "undefined"
Behaviours == {"sync", "throw", "async", "reject"}

\* the objects a caller hands to serializeToFile
PipeObjects == {"module", "chunk"}

Value(data) == [kind |-> "value", data |-> data]
PromiseRef(id) == [kind |-> "promise", id |-> id]

\* faulty variant: a Promise is handed on like a plain result
NeverInstanceOfPromise(last) == FALSE

\* last instanceof Promise
InstanceOfPromise(last) == last.kind = "promise"

\* what middleware k makes of its input
Output(k, input) ==
    IF input.kind = "value" THEN Append(input.data, Middlewares[k])
    ELSE <<"[object Promise]", Middlewares[k]>>

\* what middleware k restores from its input
Restored(k, input) ==
    IF input.kind = "value" THEN <<Middlewares[k]>> \o input.data
    ELSE <<Middlewares[k], "[object Promise]">>

\* a Promise: stage is the middleware whose call returned it (0: none),
\* waitsOn and onFulfilled are set for the Promise that last.then(callback) returned,
\* follows is the Promise a callback returned
NewPromise(state, value, stage, will, waitsOn, onFulfilled) ==
    [state |-> state, value |-> value, stage |-> stage, will |-> will,
     waitsOn |-> waitsOn, onFulfilled |-> onFulfilled, follows |-> 0, reacted |-> FALSE]

\* the state of a Serializer call when it starts: order is the array reduce
\* walks, after the call that came before on the same Serializer
PipeStart(obj, behaviour) ==
    [called |-> TRUE, op |-> "serializeToFile", order |-> middlewares,
     after |-> IF pipe.called THEN pipe.op ELSE "none",
     obj |-> obj, behaviour |-> behaviour, promises |-> <<>>,
     log |-> <<>>, results |-> [k \in DOMAIN Middlewares |-> <<>>],
     available |-> {}, failed |-> {}, threw |-> FALSE, returned |-> 0]

\* middleware.serialize(input, context): the call is logged; answer is what it
\* returned, or that it threw
CallSerialize(pp, k, input) ==
    LET logged == [pp EXCEPT !.log = Append(@, [stage |-> k, input |-> input])]
        b == pp.behaviour[k]
    IN CASE b = "sync" ->
              [pp |-> [logged EXCEPT !.results[k] = Output(k, input),
                                     !.available = @ \cup {k}],
               answer |-> Value(Output(k, input))]
         [] b = "throw" ->
              [pp |-> [logged EXCEPT !.failed = @ \cup {k}], answer |-> [kind |-> "thrown"]]
         [] OTHER ->
              [pp |-> [logged EXCEPT !.promises = Append(@,
                          NewPromise("pending", Output(k, input), k,
                                     IF b = "async" THEN "fulfilled" ELSE "rejected", 0, 0))],
               answer |-> PromiseRef(Len(pp.promises) + 1)]

\* middleware.deserialize(input, context)
CallDeserialize(pp, k, input) ==
    LET logged == [pp EXCEPT !.log = Append(@, [stage |-> k, input |-> input])]
        b == pp.behaviour[k]
    IN CASE b = "sync" ->
              [pp |-> [logged EXCEPT !.results[k] = Restored(k, input),
                                     !.available = @ \cup {k}],
               answer |-> Value(Restored(k, input))]
         [] b = "throw" ->
              [pp |-> [logged EXCEPT !.failed = @ \cup {k}], answer |-> [kind |-> "thrown"]]
         [] OTHER ->
              [pp |-> [logged EXCEPT !.promises = Append(@,
                          NewPromise("pending", Restored(k, input), k,
                                     IF b = "async" THEN "fulfilled" ELSE "rejected", 0, 0))],
               answer |-> PromiseRef(Len(pp.promises) + 1)]

\* the reduce callback's call of the middleware: serialize when writing,
\* deserialize when reading
CallMiddleware(pp, k, input) ==
    IF pp.op = "serializeToFile" THEN CallSerialize(pp, k, input)
    ELSE CallDeserialize(pp, k, input)

\* last.then(data => middleware.serialize(data, context)), and the same with deserialize
Then(pp, last, k) ==
    [pp |-> [pp EXCEPT !.promises = Append(@, NewPromise("pending", <<>>, 0, "", last.id, k))],
     answer |-> PromiseRef(Len(pp.promises) + 1)]

\* Promise.resolve(last)
PromiseResolve(pp, last) ==
    IF last.kind = "promise" THEN [pp EXCEPT !.returned = last.id]
    ELSE [pp EXCEPT !.promises = Append(@, NewPromise("fulfilled", last.data, 0, "", 0, 0)),
                    !.returned = Len(pp.promises) + 1]

RECURSIVE Reduce(_, _, _)
\* array.reduce(callback, initial) over pp.order, from its element k on
Reduce(pp, k, last) ==
    IF k > Len(pp.order) THEN PromiseResolve(pp, last)
    ELSE IF InstanceOfPromise(last)
    THEN LET chained == Then(pp, last, StageOf(pp.order[k]))
         IN Reduce(chained.pp, k + 1, chained.answer)
    ELSE LET call == CallMiddleware(pp, StageOf(pp.order[k]), last)
         IN IF call.answer.kind = "thrown" THEN [call.pp EXCEPT !.threw = TRUE]
            ELSE Reduce(call.pp, k + 1, call.answer)

\* serializeToFile(obj, filename), up to its return
serializeToFile(obj, behaviour) == Reduce(PipeStart(obj, behaviour), 1, Value(<<obj>>))

\* .then(array => array[0]) on the Promise the reduce ended with
ThenElementZero(pp) ==
    [pp EXCEPT !.promises = Append(@, NewPromise("pending", <<>>, 0, "", pp.returned,
                                                 ElementZero)),
               !.returned = Len(pp.promises) + 1]

\* deserializeFromFile(filename), up to its return
deserializeFromFile(behaviour) ==
    LET start == [PipeStart("", behaviour) EXCEPT
                      !.op = "deserializeFromFile",
                      !.order = ReversedCopy(middlewares).order]
        reduced == Reduce(start, 1, Value(<<>>))
    IN IF reduced.threw THEN reduced ELSE ThenElementZero(reduced)

Settled(p) == p.state # "pending"

PipeUnchanged ==
    UNCHANGED <<serializers, globalSerializers, lastRegister, ser, stream, origin, de, lazy, calls>>

PipeInit ==
    /\ serializers = StartupSerializers
    /\ globalSerializers = StartupGlobalSerializers
    /\ lastRegister = NoCall
    /\ ser = NoCall
    /\ stream = <<>>
    /\ origin = "none"
    /\ de = NoCall
    /\ pipe = NoPipe
    /\ middlewares = Middlewares
    /\ lazy = NoLazy
    /\ calls = NoCalls

\* the call threw, or the Promise it returned is settled
Finished(pp) ==
    pp.called /\ (pp.threw \/ (pp.returned # 0 /\ Settled(pp.promises[pp.returned])))

\* a caller runs serializeToFile: the first call, or one after a finished call
SerializeToFile(obj, behaviour) ==
    /\ ~pipe.called \/ Finished(pipe)
    /\ pipe' = serializeToFile(obj, behaviour)
    /\ UNCHANGED middlewares
    /\ PipeUnchanged

\* a caller runs deserializeFromFile: the first call, or one after a finished call
DeserializeFromFile(behaviour) ==
    /\ ~pipe.called \/ Finished(pipe)
    /\ pipe' = deserializeFromFile(behaviour)
    /\ middlewares' = ReversedCopy(middlewares).list
    /\ PipeUnchanged

\* the Promise a middleware returned is settled by that middleware
Settle(id) ==
    /\ pipe.called
    /\ id \in DOMAIN pipe.promises
    /\ LET p == pipe.promises[id]
       IN /\ p.state = "pending"
          /\ p.stage # 0
          /\ pipe' = [pipe EXCEPT !.promises[id].state = p.will,
                         !.results[p.stage] =
                             IF p.will = "fulfilled" THEN p.value ELSE @,
                         !.available =
                             IF p.will = "fulfilled" THEN @ \cup {p.stage} ELSE @,
                         !.failed = IF p.will = "rejected" THEN @ \cup {p.stage} ELSE @]
    /\ UNCHANGED middlewares
    /\ PipeUnchanged

\* the reaction of a Promise made by then(): the callback runs once the Promise
\* it waits on is fulfilled; a rejection is passed on without running it
React(id) ==
    /\ pipe.called
    /\ id \in DOMAIN pipe.promises
    /\ LET q == pipe.promises[id]
       IN /\ q.state = "pending"
          /\ q.waitsOn # 0
          /\ ~q.reacted
          /\ Settled(pipe.promises[q.waitsOn])
          /\ LET p == pipe.promises[q.waitsOn]
                 marked == [pipe EXCEPT !.promises[id].reacted = TRUE]
             IN IF p.state = "rejected"
                THEN pipe' = [marked EXCEPT !.promises[id].state = "rejected"]
                ELSE IF q.onFulfilled = ElementZero
                THEN pipe' = [marked EXCEPT !.promises[id].state = "fulfilled",
                                            !.promises[id].value = ElementZeroOf(p.value)]
                ELSE LET call == CallMiddleware(marked, q.onFulfilled, Value(p.value))
                     IN pipe' =
                          CASE call.answer.kind = "thrown" ->
                                  [call.pp EXCEPT !.promises[id].state = "rejected"]
                            [] call.answer.kind = "value" ->
                                  [call.pp EXCEPT !.promises[id].state = "fulfilled",
                                                  !.promises[id].value = call.answer.data]
                            [] OTHER ->
                                  [call.pp EXCEPT !.promises[id].follows = call.answer.id]
    /\ UNCHANGED middlewares
    /\ PipeUnchanged

\* a Promise resolved with another Promise takes that Promise's outcome
Follow(id) ==
    /\ pipe.called
    /\ id \in DOMAIN pipe.promises
    /\ LET q == pipe.promises[id]
       IN /\ q.state = "pending"
          /\ q.follows # 0
          /\ Settled(pipe.promises[q.follows])
          /\ pipe' = [pipe EXCEPT !.promises[id].state = pipe.promises[q.follows].state,
                                  !.promises[id].value = pipe.promises[q.follows].value]
    /\ UNCHANGED middlewares
    /\ PipeUnchanged

PipeNext ==
    \/ \E obj \in PipeObjects, behaviour \in [DOMAIN Middlewares -> Behaviours] :
          SerializeToFile(obj, behaviour)
    \/ \E behaviour \in [DOMAIN Middlewares -> Behaviours] : DeserializeFromFile(behaviour)
    \/ \E id \in 1..(2 * Len(Middlewares) + 1) : Settle(id)
    \/ \E id \in 1..(2 * Len(Middlewares) + 1) : React(id)
    \/ \E id \in 1..(2 * Len(Middlewares) + 1) : Follow(id)

PipeSpec == PipeInit /\ [][PipeNext]_vars

(***************************************************************************)
(* C10.  Write pipeline ordering: the middlewares' serialize calls happen  *)
(* in configured order, each at most once; the first receives [obj]; a     *)
(* later one is called only when its predecessor's result is available     *)
(* and receives exactly that result; after a middleware failed (threw, or  *)
(* its Promise was rejected) no later one is called; and when the Promise  *)
(* serializeToFile returned is fulfilled, every middleware was called      *)
(* exactly once and the Promise holds the last one's result.               *)
(***************************************************************************)
C10_WritePipelineOrder ==
    (pipe.called /\ pipe.op = "serializeToFile") =>
        /\ Len(pipe.log) <= Len(Middlewares)
        /\ \A k \in DOMAIN pipe.log : pipe.log[k].stage = k
        /\ Len(pipe.log) >= 1 /\ pipe.log[1].input = Value(<<pipe.obj>>)
        /\ \A k \in DOMAIN pipe.log :
              k > 1 => /\ (k - 1) \in pipe.available
                       /\ pipe.log[k].input = Value(pipe.results[k - 1])
        /\ \A k \in pipe.failed : Len(pipe.log) <= k
        /\ (pipe.returned # 0 /\ pipe.promises[pipe.returned].state = "fulfilled") =>
              /\ Len(pipe.log) = Len(Middlewares)
              /\ pipe.promises[pipe.returned].value = pipe.results[Len(Middlewares)]

\* a deferred first stage, then a synchronous one, then a deferred one: all done
C10_DeferredThenDone ==
    /\ pipe.called
    /\ pipe.op = "serializeToFile"
    /\ pipe.behaviour = <<"async", "sync", "async">>
    /\ pipe.returned # 0
    /\ pipe.promises[pipe.returned].state = "fulfilled"
    /\ pipe.promises[pipe.returned].value =
          <<"module", "ObjectMiddleware", "BinaryMiddleware", "FileMiddleware">>

(***************************************************************************)
(* C11.  Read pipeline ordering: deserializeFromFile calls deserialize of  *)
(* the middlewares in the reverse of the configured order, each at most    *)
(* once and, when the returned Promise is fulfilled, each exactly once;    *)
(* the last configured middleware receives the empty array; a later call   *)
(* happens only when the result of the call before it is available and     *)
(* receives exactly that result; the returned Promise holds element 0 of   *)
(* the last result; and this.middlewares keeps the configured order, so    *)
(* that every call, first or later, walks the same order.                  *)
(***************************************************************************)
C11_ReadPipelineOrder ==
    /\ middlewares = Middlewares
    /\ pipe.called =>
          pipe.order = IF pipe.op = "serializeToFile" THEN Middlewares
                       ELSE Reverse(Middlewares)
    /\ (pipe.called /\ pipe.op = "deserializeFromFile") =>
        /\ Len(pipe.log) <= Len(Middlewares)
        /\ \A j \in DOMAIN pipe.log : pipe.log[j].stage = Len(Middlewares) + 1 - j
        /\ Len(pipe.log) >= 1 /\ pipe.log[1].input = Value(<<>>)
        /\ \A j \in DOMAIN pipe.log :
              j > 1 => /\ pipe.log[j - 1].stage \in pipe.available
                       /\ pipe.log[j].input = Value(pipe.results[pipe.log[j - 1].stage])
        /\ (pipe.returned # 0 /\ pipe.promises[pipe.returned].state = "fulfilled") =>
              /\ Len(pipe.log) = Len(Middlewares)
              /\ pipe.promises[pipe.returned].value = pipe.results[1][1]

\* a read with a deferred stage is done and gave element 0, on a Serializer
\* that had read before
C11_ReadAfterRead ==
    /\ pipe.called
    /\ pipe.op = "deserializeFromFile"
    /\ pipe.after = "deserializeFromFile"
    /\ pipe.behaviour = <<"sync", "async", "sync">>
    /\ pipe.returned # 0
    /\ pipe.promises[pipe.returned].state = "fulfilled"
    /\ pipe.promises[pipe.returned].value = "ObjectMiddleware"
    /\ pipe.results[1] = <<"ObjectMiddleware", "BinaryMiddleware", "FileMiddleware">>

(***************************************************************************)
(* Comparing the graph handed to serialize with the graph deserialize      *)
(* built: the pairs of values found at the same place of both, walking     *)
(* from the two sequences through the objects' properties.                 *)
(***************************************************************************)
IsObject(v) == v.k = "object"

Props(heap, v) == DOMAIN heap[v.id].fields

PairsBelow(pairs, heapA, heapB) ==
    {<<Get(heapA, p[1], f), Get(heapB, p[2], f)>> :
        p \in {q \in pairs : IsObject(q[1]) /\ IsObject(q[2])},
        f \in {"a", "b", "x", "_value"}}

RECURSIVE AllPairs(_, _, _)
AllPairs(pairs, heapA, heapB) ==
    LET more == pairs \cup PairsBelow(pairs, heapA, heapB)
    IN IF more = pairs THEN pairs ELSE AllPairs(more, heapA, heapB)

\* the same kind of value: primitives and buffers equal, objects of one class with
\* the same property names
Alike(heapA, heapB, v, w) ==
    /\ v.k = w.k
    /\ IF IsObject(v)
       THEN /\ heapA[v.id].type = heapB[w.id].type
            /\ Props(heapA, v) = Props(heapB, w)
       ELSE v = w

\* structural equality that keeps identity: one object of A for one object of B
SameGraph(seqA, heapA, seqB, heapB) ==
    /\ Len(seqA) = Len(seqB)
    /\ LET pairs == AllPairs({<<seqA[i], seqB[i]>> : i \in DOMAIN seqA}, heapA, heapB)
       IN /\ \A p \in pairs : Alike(heapA, heapB, p[1], p[2])
          /\ \A p, q \in pairs :
                (IsObject(p[1]) /\ IsObject(q[1])) => ((p[1] = q[1]) <=> (p[2] = q[2]))

\* the values reachable from a data sequence
RECURSIVE Reachable(_)
Reachable(vs) ==
    LET more == vs \cup {Get(Heap, v, f) : v \in {o \in vs : IsObject(o)},
                                          f \in {"a", "b", "x", "_value"}}
    IN IF more = vs THEN vs ELSE Reachable(more)

ValuesOf(data) == Reachable({data[i] : i \in DOMAIN data})

\* every object of the graph is of a registered class, every other value is a
\* primitive stream item (string, byte-buffer, number, null, undefined)
BuiltFromRegistered(data) ==
    \A v \in ValuesOf(data) :
        IF IsObject(v) THEN Heap[v.id].type \in DOMAIN serializers
        ELSE v.k \in {"string", "buffer", "number", "null", "undefined"}

\* no object of the graph is reached from its own properties
Acyclic(data) ==
    \A v \in {o \in ValuesOf(data) : IsObject(o)} :
        v \notin Reachable({Get(Heap, v, f) : f \in Props(Heap, v)})

\* a deserialize call on exactly what the serialize call returned
RoundTripped == ser.called /\ ~ser.threw /\ de.called /\ origin = "serialize"

(***************************************************************************)
(* C1.  Round trip with identity: for every graph built from registered    *)
(* classes and primitive values, serialize succeeds and deserialize of its *)
(* output succeeds with a sequence structurally equal to the input, shared *)
(* objects staying shared.  (Stated for the graphs the codec is meant for: *)
(* those in which no object contains itself.)                              *)
(***************************************************************************)
C1_RoundTrip ==
    (ser.called /\ BuiltFromRegistered(ser.data) /\ Acyclic(ser.data)) =>
        /\ ~ser.threw
        /\ RoundTripped => (~de.threw /\ SameGraph(ser.data, Heap, de.result, de.heap))

\* what the code does give: whenever serialize returns, for a graph without
\* deferred producers, the round trip restores the graph
RoundTripWhenSerialized ==
    (RoundTripped /\ \A v \in ValuesOf(ser.data) : v.k # "function") =>
        (~de.threw /\ SameGraph(ser.data, Heap, de.result, de.heap))

C1_SharedStaysShared ==
    RoundTripped /\ ser.data = <<Obj(2), Obj(1)>> /\ ~de.threw

\* the items a completed process() call emitted
Emitted(e) == SubSeq(ser.emitted, e.from, e.to)

SerLog == {ser.log[i] : i \in DOMAIN ser.log}
DeLog == {de.log[i] : i \in DOMAIN de.log}

\* the decodeValue() call that consumed exactly the items process() call e emitted
DecodedFrom(e) == {d \in DeLog : d.from = e.from /\ d.to = e.to /\ d.depth = e.depth}

(***************************************************************************)
(* C2.  Escape safety: process(null) emits exactly [ESCAPE, 1] and leaves  *)
(* currentPos and referenceable alone; deserialize of the stream decodes   *)
(* those two items as the escaped sentinel (not as a reference or a        *)
(* header), again without touching currentPos or referenceable, and the    *)
(* value null stands at the same place of the result: the same index at    *)
(* top level, the same property inside a decoded object.                   *)
(***************************************************************************)
C2_EscapeSafety ==
    ser.called =>
        /\ \A e \in SerLog : e.item = ESCAPE =>
              /\ Emitted(e) = <<ESCAPE, ESCAPE_ESCAPE_VALUE>>
              /\ e.posAfter = e.posBefore
              /\ e.tableAfter = e.tableBefore
              /\ RoundTripped =>
                    /\ ~de.threw
                    /\ \E d \in DecodedFrom(e) :
                          /\ d.how = "escape"
                          /\ d.value = ESCAPE
                          /\ d.posAfter = d.posBefore
                          /\ d.tableAfter = d.tableBefore
        /\ RoundTripped =>
              /\ \A i \in DOMAIN ser.data :
                    ser.data[i] = ESCAPE => (i \in DOMAIN de.result /\ de.result[i] = ESCAPE)
              /\ \A e \in SerLog : \A d \in DecodedFrom(e) :
                    (e.how = "object" /\ d.how = "object") =>
                        \A f \in Props(Heap, e.item) :
                            Get(Heap, e.item, f) = ESCAPE => Get(de.heap, d.value, f) = ESCAPE

\* null at top level and null written by a capability, both decoded
C2_NullInsideAndOutside ==
    /\ RoundTripped
    /\ ser.data = <<Obj(1), Null>>
    /\ de.result[2] = Null
    /\ Get(de.heap, de.result[1], "b") = Null

(***************************************************************************)
(* C3.  Reference compactness: in one serialize call the first process()   *)
(* of a string emits the string itself, as one item, and every later       *)
(* process() of an equal string emits the two items [ESCAPE, offset] with  *)
(* offset = (position of the string) - currentPos < 0; serialize([s, s])   *)
(* is [s, ESCAPE, -1] and deserialize of it is [s, s].                     *)
(***************************************************************************)
C3_ReferenceCompactness ==
    ser.called =>
        /\ \A i \in DOMAIN ser.log :
              LET e == ser.log[i]
              IN e.item.k = "string" =>
                    IF \A j \in 1..(i - 1) : ser.log[j].item # e.item
                    THEN Emitted(e) = <<e.item>>
                    ELSE /\ e.item \in DOMAIN e.tableBefore
                         /\ Emitted(e) = <<ESCAPE, Num(e.tableBefore[e.item] - e.posBefore)>>
                         /\ e.tableBefore[e.item] - e.posBefore < 0
        /\ \A s \in {Str("s"), Str("t")} :
              ser.data = <<s, s>> =>
                  /\ ser.result = <<s, ESCAPE, Num(-1)>>
                  /\ RoundTripped => (~de.threw /\ de.result = <<s, s>>)

C3_SameStringTwice ==
    RoundTripped /\ ser.data = <<Str("s"), Str("s")>> /\ de.result = <<Str("s"), Str("s")>>

(***************************************************************************)
(* C4.  A byte-buffer that process() is entered with for the first time is *)
(* encoded like a string: it is registered at currentPos, currentPos is    *)
(* incremented, and the buffer is emitted as one verbatim item; no         *)
(* unregistered-type error is raised for it.                               *)
(***************************************************************************)
C4_BufferVerbatim ==
    ser.called =>
        \A i \in DOMAIN ser.visited :
            LET item == ser.visited[i]
            IN (IsBuffer(item) /\ \A j \in 1..(i - 1) : ser.visited[j] # item) =>
                  /\ ser.error # Error("No serializer registered for", "Buffer")
                  /\ \E e \in SerLog :
                        /\ e.item = item
                        /\ e.how = "buffer"
                        /\ Emitted(e) = <<item>>
                        /\ e.posAfter = e.posBefore + 1
                        /\ e.tableAfter[item] = e.posBefore

(***************************************************************************)
(* C5.  An unresolved back-reference is fatal: when deserialize decodes    *)
(* [ESCAPE, n], n a number other than 1, and referenceable has no entry at *)
(* currentPos + n, the call throws; it returns no result in which the      *)
(* reference was replaced by undefined.                                    *)
(***************************************************************************)
\* a completed decode of a back-reference that found no entry
Missed(d) ==
    /\ d.how = "reference"
    /\ d.posBefore + de.data[d.to].n \notin DOMAIN d.tableBefore

C5_UnresolvedReferenceFatal ==
    de.called => ((\E d \in DeLog : Missed(d)) => de.threw)

(***************************************************************************)
(* C6.  Truncation safety: deserialize of a proper prefix of a serialize   *)
(* output that ends inside an item group (not at the end of a top-level    *)
(* item) throws "Unexpected end of stream" and returns no result.          *)
(***************************************************************************)
\* the places where the emitted stream may be cut between two top-level items
TopLevelEnds == {0} \cup {e.to : e \in {x \in SerLog : x.depth = 1}}

C6_TruncationSafety ==
    (de.called /\ origin = "truncated" /\ Len(stream) \notin TopLevelEnds) =>
        /\ de.threw
        /\ de.error = Error("Unexpected end of stream", "Error")
        /\ de.result = <<>>

\* cut inside an object section, after a first property was read
C6_CutInsideObject ==
    /\ de.called
    /\ origin = "truncated"
    /\ ser.data = <<Str("t"), Obj(1)>>
    /\ Len(stream) = 5
    /\ de.threw
    /\ Len(de.decoded) = 1

(***************************************************************************)
(* C8.  Unregistered type on encode: when process() is entered, at any     *)
(* depth, with an object whose class has no registry entry, the serialize  *)
(* call throws the error naming that class and returns no items, whatever  *)
(* it had emitted before.                                                  *)
(***************************************************************************)
C8_UnregisteredTypeFails ==
    ser.called =>
        \A i \in DOMAIN ser.visited :
            LET item == ser.visited[i]
            IN (IsObject(item) /\ Heap[item.id].type \notin DOMAIN serializers) =>
                  /\ ser.threw
                  /\ ser.error = Error("No serializer registered for", Heap[item.id].type)
                  /\ ser.result = <<>>

\* the unregistered object is met inside another object, after items were emitted
C8_UnregisteredAtDepth ==
    /\ ser.called
    /\ ser.data = <<Str("s"), Obj(6)>>
    /\ ser.threw
    /\ Len(ser.emitted) > 1
    /\ ser.visited[Len(ser.visited)] = Obj(4)

(***************************************************************************)
(* C7.  Duplicate global name: a register call with the global request     *)
(* marker and an exportName already in globalSerializers throws and leaves *)
(* serializers and globalSerializers as they were.                         *)
(***************************************************************************)
C7_DuplicateGlobalName ==
    (/\ lastRegister.called
     /\ lastRegister.request = GLOBAL_SERIALIZER_REQUEST
     /\ lastRegister.exportName \in DOMAIN lastRegister.before.globalSerializers) =>
        /\ lastRegister.threw
        /\ serializers = lastRegister.before.serializers
        /\ globalSerializers = lastRegister.before.globalSerializers

\* a new class, under a name another capability holds
C7_DuplicateRejected ==
    /\ lastRegister.called
    /\ lastRegister.threw
    /\ lastRegister.exportName # Null
    /\ lastRegister.Constructor \notin DOMAIN serializers
    /\ globalSerializers[lastRegister.exportName] # lastRegister.serializer

(***************************************************************************)
(* C9 as stated.  Per-type overwrite is idempotent: a register call for a  *)
(* class that has an entry replaces that entry (one entry per class), and  *)
(* a call that repeats the previous call's arguments returns normally and  *)
(* leaves the registry as the previous call left it.                       *)
(***************************************************************************)
RegisteredEntry ==
    [request |-> lastRegister.request, exportName |-> lastRegister.exportName,
     serializer |-> lastRegister.serializer]

\* the per-type table after a call that returned: the class's entry replaced, the
\* other classes' entries kept
Overwritten ==
    /\ DOMAIN serializers =
          DOMAIN lastRegister.before.serializers \cup {lastRegister.Constructor}
    /\ serializers[lastRegister.Constructor] = RegisteredEntry
    /\ \A c \in DOMAIN lastRegister.before.serializers :
          c # lastRegister.Constructor => serializers[c] = lastRegister.before.serializers[c]

RegistryAsBefore ==
    /\ serializers = lastRegister.before.serializers
    /\ globalSerializers = lastRegister.before.globalSerializers

C9_RepeatSucceeds ==
    lastRegister.called =>
        /\ ~lastRegister.threw => Overwritten
        /\ lastRegister.repeat => (~lastRegister.threw /\ RegistryAsBefore)

(***************************************************************************)
(* C9 as amended.  A register call throws exactly when its request is the  *)
(* global marker and its exportName is taken; otherwise it replaces the    *)
(* class's entry.  A call that repeats the previous call's arguments       *)
(* leaves the registry as the previous call left it: it returns normally   *)
(* when the request is not the global marker and throws when it is.        *)
(***************************************************************************)
C9_OverwriteUnlessNameTaken ==
    lastRegister.called =>
        /\ lastRegister.threw <=>
              /\ lastRegister.request = GLOBAL_SERIALIZER_REQUEST
              /\ lastRegister.exportName \in DOMAIN lastRegister.before.globalSerializers
        /\ ~lastRegister.threw => Overwritten
        /\ lastRegister.repeat =>
              /\ RegistryAsBefore
              /\ lastRegister.threw <=> (lastRegister.request = GLOBAL_SERIALIZER_REQUEST)

\* a class that had an entry got another one, and the call is then repeated
C9_ReplacedThenRepeated ==
    /\ lastRegister.called
    /\ lastRegister.repeat
    /\ ~lastRegister.threw
    /\ lastRegister.Constructor = "ClassA"
    /\ serializers["ClassA"].serializer = RawSourceSerializer


(***************************************************************************)
(* Deferred producers: what the producer returned, and where the decoded   *)
(* lazy result stands next to the decoded enclosing sequence.              *)
(***************************************************************************)
\* the deferred value was called and has given its decoded result
LazyDecoded ==
    /\ lazy.called
    /\ lazy.via = "deferred"
    /\ lazy.state = "done"
    /\ lazy.de.called

\* the thunk was called and has given its encoded result
LazyEncoded == lazy.called /\ lazy.state \in {"serialized", "done"} /\ lazy.ser.called

\* what the producer behind the invoked thunk returns
Produced == CallProducer(lazy.thunk.producer).result

\* seq with the element at place i replaced by the elements of ins
Splice(seq, i, ins) == SubSeq(seq, 1, i - 1) \o ins \o SubSeq(seq, i + 1, Len(seq))

\* two heaps side by side: the objects of the second are renumbered
ShiftValue(v, n) == IF IsObject(v) THEN Obj(v.id + n) ELSE v
ShiftSeq(seq, n) == [i \in DOMAIN seq |-> ShiftValue(seq[i], n)]
ShiftHeap(heap, n) ==
    [i \in DOMAIN heap |->
        [type |-> heap[i].type,
         fields |-> [f \in DOMAIN heap[i].fields |-> ShiftValue(heap[i].fields[f], n)]]]
PlainHeap(heap) == ShiftHeap(heap, 0)

\* the data without the invoked function
RestOfData == Splice(ser.data, lazy.at, <<>>)

\* the invoked function is the only one of the data
OnlyFunction == \A v \in ValuesOf(RestOfData) : v.k # "function"

\* the decoded data with the decoded lazy result in the function's place is
\* the data with the producer's result in the function's place
AsIfEager ==
    SameGraph(Splice(ser.data, lazy.at, Produced), Heap,
              Splice(de.result, lazy.at, ShiftSeq(lazy.de.result, Len(de.heap))),
              PlainHeap(de.heap) \o ShiftHeap(lazy.de.heap, Len(de.heap)))

\* the producer's result and the rest of the data have an object in common
SharesObject ==
    \E v \in ValuesOf(Produced) \cap ValuesOf(RestOfData) : IsObject(v)

(***************************************************************************)
(* C12 as stated.  Lazy value transparency: calling the thunk serialize    *)
(* emitted for a producer and then the deferred value deserialize returned *)
(* for it gives what eager encoding of the producer's result in the        *)
(* producer's place would have decoded to, also when the result shares     *)
(* strings or objects with the rest of the data.                           *)
(***************************************************************************)
C12_LazyTransparency ==
    (LazyDecoded /\ OnlyFunction) => (~lazy.de.threw /\ AsIfEager)

(***************************************************************************)
(* C12 as the code has it.  The deferred value gives the producer's result *)
(* as decoded from an encoding of its own: structurally equal to the       *)
(* result, sharing inside the result kept.  Put in the producer's place it *)
(* is what eager encoding would have given exactly when the result has no  *)
(* object in common with the rest of the data: a common object comes back  *)
(* as two copies, a common string as equal strings.                        *)
(***************************************************************************)
C12_LazyDecodedOnItsOwn ==
    LazyDecoded =>
        /\ ~lazy.de.threw
        /\ SameGraph(Produced, Heap, lazy.de.result, lazy.de.heap)
        /\ OnlyFunction => (AsIfEager <=> ~SharesObject)

\* an object of the data is also in the producer's result, and both were decoded
C12_SharedWithTheRest ==
    /\ LazyDecoded
    /\ ser.data = <<Obj(1), Fn(1)>>
    /\ de.result[1] = Obj(1)
    /\ lazy.de.result = <<Obj(1), Str("s"), Str("s")>>
    /\ lazy.de.heap[1].fields["a"] = Str("s")


(***************************************************************************)
(* The process() calls made for the items of data, and those a capability  *)
(* made through write() for one object, each in the order they were made.  *)
(***************************************************************************)
TopEvents == SelectSeq(ser.log, LAMBDA e : e.depth = 1)

ChildEvents(o) ==
    SelectSeq(ser.log, LAMBDA e : e.depth = o.depth + 1 /\ e.from > o.from /\ e.to <= o.to)

\* events that lie one after the other in the output, from place `first` to `last`
InARow(events, first, last) ==
    /\ Len(events) >= 1 =>
          /\ events[1].from = first
          /\ events[Len(events)].to = last
    /\ Len(events) = 0 => last = first - 1
    /\ \A k \in 1..(Len(events) - 1) : events[k + 1].from = events[k].to + 1

\* a data sequence with the synchronous and the asynchronous producer exchanged
SwapProducers(data) ==
    [i \in DOMAIN data |->
        IF TypeOf(data[i]) = "function" THEN Fn(3 - data[i].fn) ELSE data[i]]

\* an output sequence in which a thunk no longer tells its producer
WithoutProducers(items) ==
    [i \in DOMAIN items |->
        IF TypeOf(items[i]) = "function" THEN [k |-> "function"] ELSE items[i]]

(***************************************************************************)
(* C13.  Thunk ordering: process() of a function emits exactly one item,   *)
(* the thunk of that function, where the traversal stands: the items of    *)
(* data, and the values one object writes, lie in the output one after the *)
(* other in the order they were processed.  The output is the same, but    *)
(* for the producers the thunks hold, when synchronous and asynchronous    *)
(* producers are exchanged, and it is not changed by calling the thunks    *)
(* or by their producers' Promises being fulfilled.                        *)
(***************************************************************************)
C13_ThunkOrdering ==
    ser.called =>
        /\ \A e \in SerLog :
              e.how = "function" =>
                  /\ e.to = e.from
                  /\ Emitted(e) = <<LazySerialize(e.item)>>
        /\ ~ser.threw =>
              /\ Len(TopEvents) = Len(ser.data)
              /\ \A k \in DOMAIN TopEvents : TopEvents[k].item = ser.data[k]
              /\ InARow(TopEvents, 1, Len(ser.result))
        /\ \A o \in SerLog :
              o.how = "object" => InARow(ChildEvents(o), o.from + 3, o.to)
        /\ LET other == serialize(SwapProducers(ser.data))
           IN /\ other.threw = ser.threw
              /\ WithoutProducers(other.result) = WithoutProducers(ser.result)
        /\ (lazy.called /\ origin = "serialize") =>
              /\ lazy.before.ser = ser
              /\ stream = ser.result

\* an asynchronous producer at top level and inside an object: the first thunk was
\* called twice and fulfilled, and the output is as serialize returned it
C13_ThunkBetweenSiblings ==
    /\ ser.called
    /\ ser.data = <<Fn(2), Obj(8)>>
    /\ lazy.called
    /\ lazy.state = "done"
    /\ lazy.thunkCalls = 2
    /\ lazy.ser.called
    /\ Len(stream) = 5
    /\ stream[1] = LazySerialize(Fn(2))
    /\ stream[5] = LazySerialize(Fn(2))


\* the places of a log whose event entered a value into the table
Registering(log) == {j \in DOMAIN log : log[j].how \in {"string", "buffer", "object"}}

(***************************************************************************)
(* C20.  Thunk isolation: process() of a function leaves currentPos and    *)
(* referenceable alone; calling the thunk later leaves the enclosing       *)
(* serialize call's record and the stored output as they were; the         *)
(* producer's result is encoded by a serialize run of its own that starts  *)
(* with an empty table at position 0, so that every back-reference in the  *)
(* encoded lazy result points to a value entered earlier in that same run; *)
(* and the producer has been called once for each call of the thunk.       *)
(***************************************************************************)
C20_ThunkIsolation ==
    /\ ser.called =>
          \A e \in SerLog :
              e.how = "function" =>
                  /\ e.posAfter = e.posBefore
                  /\ e.tableAfter = e.tableBefore
    /\ lazy.producerCalls = lazy.thunkCalls
    /\ lazy.called =>
          /\ lazy.before.ser = ser
          /\ lazy.before.stream = stream
    /\ LazyEncoded =>
          LET log == lazy.ser.log
          IN /\ lazy.ser.data = Produced
             /\ Len(log) >= 1 =>
                   /\ log[1].posBefore = 0
                   /\ log[1].tableBefore = <<>>
             /\ lazy.ser.currentPos = Cardinality(Registering(log))
             /\ \A j \in DOMAIN log :
                   log[j].how = "reference" =>
                       /\ \E i \in Registering(log) :
                              /\ i < j
                              /\ log[i].item = log[j].item
                              /\ log[j].tableBefore[log[j].item] = log[i].posAfter - 1
                       /\ SubSeq(lazy.ser.emitted, log[j].from, log[j].to) =
                              <<ESCAPE, Num(log[j].tableBefore[log[j].item]
                                            - log[j].posBefore)>>

\* the thunk of a producer whose result repeats a string and holds an object of
\* the enclosing data was called twice
C20_CalledTwice ==
    /\ lazy.called
    /\ lazy.state = "done"
    /\ lazy.thunkCalls = 2
    /\ lazy.producerCalls = 2
    /\ ser.data = <<Obj(1), Fn(1)>>
    /\ ser.currentPos = 2
    /\ lazy.ser.currentPos = 2
    /\ lazy.ser.result =
          <<ESCAPE, Str("lib/ClassA"), Null, Str("s"), ESCAPE, ESCAPE_ESCAPE_VALUE,
            ESCAPE, Num(-2), ESCAPE, Num(-2)>>


\* the decodeValue() calls a capability made through read() for one object
DeChildEvents(d) ==
    SelectSeq(de.log, LAMBDA e : e.depth = d.depth + 1 /\ e.from > d.from /\ e.to <= d.to)

\* the objects that process() completed, and that decodeValue() completed, with a
\* PropertiesSerializer
WrittenByProperties ==
    {o \in SerLog : /\ o.how = "object"
                    /\ getSerializerFor(o.item).config.serializer.kind = "PropertiesSerializer"}

ReadByProperties ==
    {d \in DeLog : /\ d.how = "object"
                   /\ de.heap[d.value.id].type \in {"ClassA", "ClassB"}}

\* the PropertiesSerializer registered for a class
PropertiesOf(type) == serializers[type].serializer

\* seq is the beginning of full
IsPrefix(seq, full) == Len(seq) <= Len(full) /\ seq = SubSeq(full, 1, Len(seq))

(***************************************************************************)
(* C15.  Field-list capability: PropertiesSerializer.serialize writes one  *)
(* value per listed property, the object's value of that property, in list *)
(* order.  deserialize makes a new object and assigns the values read to   *)
(* the listed properties in list order; onRestored, when given, is called  *)
(* once with the object, when every listed property is assigned and before *)
(* the object is returned, and is not called when none is given.  After    *)
(* serialize and deserialize each listed property holds the decoding of    *)
(* what was written for it: a like value, and for a function the deferred  *)
(* value of its thunk.                                                     *)
(***************************************************************************)
C15_FieldList ==
    /\ ser.called =>
          \A o \in WrittenByProperties :
              LET properties == PropertiesOf(Heap[o.item.id].type).properties
                  written == ChildEvents(o)
              IN /\ Len(written) = Len(properties)
                 /\ \A i \in DOMAIN properties :
                       written[i].item = Get(Heap, o.item, properties[i])
    /\ de.called =>
          /\ \A id \in DOMAIN de.heap :
                de.heap[id].type \in {"ClassA", "ClassB"} =>
                    LET obj == de.heap[id]
                        config == PropertiesOf(obj.type)
                    IN /\ IsPrefix(obj.order, config.properties)
                       /\ obj.restored <= 1
                       /\ obj.restored = 1 =>
                             /\ config.onRestored
                             /\ obj.order = config.properties
                             /\ obj.seen = obj.fields
          /\ \A d \in ReadByProperties :
                LET obj == de.heap[d.value.id]
                    config == PropertiesOf(obj.type)
                    got == DeChildEvents(d)
                IN /\ obj.order = config.properties
                   /\ obj.restored = IF config.onRestored THEN 1 ELSE 0
                   /\ Len(got) = Len(config.properties)
                   /\ \A i \in DOMAIN got : obj.fields[config.properties[i]] = got[i].value
                   /\ \A e \in DeLog : e.to < d.from => e.value # d.value
    /\ RoundTripped =>
          \A o \in WrittenByProperties : \A d \in DecodedFrom(o) :
              /\ d \in ReadByProperties
              /\ de.heap[d.value.id].type = Heap[o.item.id].type
              /\ \A prop \in Props(Heap, o.item) :
                    LET v == Get(Heap, o.item, prop)
                        w == Get(de.heap, d.value, prop)
                    IN IF TypeOf(v) = "function" THEN w = LazyDeserialize(LazySerialize(v))
                       ELSE Alike(Heap, de.heap, v, w)

\* an object with the hook and one without, written and read back
C15_WithAndWithoutHook ==
    /\ RoundTripped
    /\ ser.data = <<Obj(1), Obj(8)>>
    /\ ~de.threw
    /\ de.heap[1].order = <<"a", "b">>
    /\ de.heap[1].restored = 1
    /\ de.heap[1].seen = ("a" :> Str("s")) @@ ("b" :> Null)
    /\ de.heap[2].fields = ("x" :> LazyDeserialize(LazySerialize(Fn(2))))
    /\ de.heap[2].restored = 0


\* the position after the calls made inside a call that started at position pos
AfterChildren(children, pos) ==
    IF Len(children) = 0 THEN pos ELSE children[Len(children)].posAfter

\* what one process() or decodeValue() call adds to the position counter, given
\* the calls made inside it
Consumes(e, children) ==
    IF e.how \in {"string", "buffer"} THEN e.posAfter = e.posBefore + 1
    ELSE IF e.how = "object" THEN e.posAfter = AfterChildren(children, e.posBefore) + 1
    ELSE e.posAfter = e.posBefore

(***************************************************************************)
(* C16.  Position lockstep: when deserialize runs on what serialize        *)
(* returned, it makes one decodeValue() call for each process() call, in   *)
(* the same order, of the same kind and over the same items; before and    *)
(* after each pair of calls currentPos is the same on both sides, and the  *)
(* read-side table holds at position k a value like the one the write-side *)
(* table maps to k.  On both sides a first-seen string or buffer and a     *)
(* completed object add one to currentPos, on top of what the calls inside *)
(* the object added; back-references, escaped nulls, thunks and other      *)
(* primitives add nothing.                                                 *)
(***************************************************************************)
C16_PositionLockstep ==
    /\ ser.called => \A e \in SerLog : Consumes(e, ChildEvents(e))
    /\ de.called => \A d \in DeLog : Consumes(d, DeChildEvents(d))
    /\ RoundTripped =>
          /\ ~de.threw
          /\ Len(de.log) = Len(ser.log)
          /\ de.currentPos = ser.currentPos
          /\ \A i \in DOMAIN ser.log :
                LET e == ser.log[i]
                    d == de.log[i]
                IN /\ d.how = e.how /\ d.depth = e.depth
                   /\ d.from = e.from /\ d.to = e.to
                   /\ d.posBefore = e.posBefore
                   /\ d.posAfter = e.posAfter
                   /\ DOMAIN d.tableAfter = {e.tableAfter[v] : v \in DOMAIN e.tableAfter}
                   /\ \A v \in DOMAIN e.tableAfter :
                         Alike(Heap, de.heap, v, d.tableAfter[e.tableAfter[v]])

\* a string, an object holding it and an object holding that one twice were
\* counted on both sides, and a back-reference was read at position 3
C16_ThreePositions ==
    /\ RoundTripped
    /\ ser.data = <<Obj(2), Str("s")>>
    /\ ser.currentPos = 3
    /\ de.currentPos = 3
    /\ de.log[Len(de.log)].how = "reference"
    /\ de.log[Len(de.log)].posBefore = 3
    /\ de.referenceable[0] = Str("s")
    /\ de.heap[de.referenceable[1].id].fields["a"] = Str("s")
    /\ de.heap[de.referenceable[2].id].fields["a"] = de.referenceable[1]


\* the process() calls that emitted a back-reference
SerReferences == {e \in SerLog : e.how = "reference"}

(***************************************************************************)
(* C17.  Back-reference offset range: a back-reference is emitted as       *)
(* [ESCAPE, r - pos], r being the position the table holds for the value   *)
(* and pos the value of currentPos; r is the position of an entry made     *)
(* before, so the offset is an integer from -pos to 0 (in fact below 0),   *)
(* never positive and never ESCAPE_ESCAPE_VALUE; and when the stream is    *)
(* decoded, pos + offset is a position the read-side table holds, whose    *)
(* entry is the value the back-reference decodes to.                       *)
(***************************************************************************)
C17_OffsetRange ==
    /\ ser.called =>
          \A e \in SerReferences :
              LET r == e.tableBefore[e.item]
                  offset == r - e.posBefore
              IN /\ Emitted(e) = <<ESCAPE, Num(offset)>>
                 /\ r \in 0..(e.posBefore - 1)
                 /\ -e.posBefore <= offset /\ offset <= 0
                 /\ offset < 0
                 /\ Num(offset) # ESCAPE_ESCAPE_VALUE
    /\ RoundTripped =>
          \A e \in SerReferences :
              /\ DecodedFrom(e) # {}
              /\ \A d \in DecodedFrom(e) :
                    LET at == d.posBefore + Emitted(e)[2].n
                    IN /\ d.how = "reference"
                       /\ at \in DOMAIN d.tableBefore
                       /\ d.value = d.tableBefore[at]

\* back-references with offsets -1 and -2 were written and resolved
C17_TwoOffsets ==
    /\ RoundTripped
    /\ ser.data = <<Obj(2), Obj(1)>>
    /\ \E e \in SerReferences : e.posBefore = 2 /\ Emitted(e) = <<ESCAPE, Num(-1)>>
    /\ \E e \in SerReferences : e.posBefore = 3 /\ Emitted(e) = <<ESCAPE, Num(-2)>>
    /\ de.result[2] = de.heap[de.result[1].id].fields["b"]


\* the calls made, at any depth, inside call number i of a log
Inside(log, i) ==
    {j \in DOMAIN log : /\ log[j].depth > log[i].depth
                        /\ log[j].from > log[i].from
                        /\ log[j].to <= log[i].to}

\* the values a read-side table holds
TableValues(table) == {table[k] : k \in DOMAIN table}

(***************************************************************************)
(* C18.  Register-after-children: on encode an object is entered into the  *)
(* table when the calls its capability made have all returned, at the      *)
(* value currentPos has then, and it is in no table seen by those calls;   *)
(* the same holds on decode.  So a back-reference is emitted only for a    *)
(* value whose own process() call had returned, with all its items         *)
(* earlier in the output, before the back-reference was written: never for *)
(* an object whose encoding is still in progress, the object itself        *)
(* included.                                                               *)
(***************************************************************************)
C18_RegisterAfterChildren ==
    /\ ser.called =>
          /\ \A i \in DOMAIN ser.log :
                ser.log[i].how = "object" =>
                    LET o == ser.log[i]
                    IN /\ o.item \notin DOMAIN o.tableBefore
                       /\ o.tableAfter[o.item] = o.posAfter - 1
                       /\ o.posAfter - 1 = AfterChildren(ChildEvents(o), o.posBefore)
                       /\ \A j \in Inside(ser.log, i) :
                             o.item \notin DOMAIN ser.log[j].tableAfter
          /\ \A j \in DOMAIN ser.log :
                ser.log[j].how = "reference" =>
                    \E i \in Registering(ser.log) :
                        /\ i < j
                        /\ ser.log[i].item = ser.log[j].item
                        /\ ser.log[i].to < ser.log[j].from
                        /\ ser.log[j].tableBefore[ser.log[j].item] = ser.log[i].posAfter - 1
    /\ de.called =>
          \A i \in DOMAIN de.log :
              de.log[i].how = "object" =>
                  LET d == de.log[i]
                  IN /\ d.value \notin TableValues(d.tableBefore)
                     /\ d.tableAfter[d.posAfter - 1] = d.value
                     /\ d.posAfter - 1 = AfterChildren(DeChildEvents(d), d.posBefore)
                     /\ \A j \in Inside(de.log, i) :
                           d.value \notin TableValues(de.log[j].tableAfter)

\* an object was entered after the object it holds, and the back-reference written
\* while it was in progress points to the object it holds
C18_InnerBeforeOuter ==
    /\ RoundTripped
    /\ ser.data = <<Obj(2)>>
    /\ ser.referenceable[Obj(1)] = 1
    /\ ser.referenceable[Obj(2)] = 2
    /\ ser.result[Len(ser.result)] = Num(-1)
    /\ de.referenceable[2] = de.result[1]
    /\ de.referenceable[1] = de.heap[de.result[1].id].fields["b"]


\* the classes registered under a global name
GloballyRegistered ==
    {c \in DOMAIN serializers : serializers[c].request = GLOBAL_SERIALIZER_REQUEST}

(***************************************************************************)
(* C19.  Registry consistency: after any register and registerGlobal       *)
(* calls, those that threw included, every class whose entry has the       *)
(* global request has an exportName that the global-name table holds,      *)
(* mapped to the serializer of that entry; so the header [ESCAPE, GLOBAL,  *)
(* exportName] that serialize emits for an object of the class resolves,   *)
(* in deserialize, to the serializer that encoded the object.              *)
(***************************************************************************)
C19_RegistryConsistency ==
    \A c \in GloballyRegistered :
        LET entry == serializers[c]
        IN /\ entry.exportName \in DOMAIN globalSerializers
           /\ globalSerializers[entry.exportName] = entry.serializer
           /\ ResolveSerializer(entry.request, entry.exportName) =
                 [ok |-> TRUE, serializer |-> entry.serializer]

\* a class took a global name; a later call for another class and the same name
\* threw and left both tables alone
C19_NameTakenThenRefused ==
    /\ lastRegister.called
    /\ lastRegister.threw
    /\ lastRegister.Constructor = "RawSource"
    /\ lastRegister.exportName = Str("webpack-source/RawSource")
    /\ "ClassA" \in GloballyRegistered
    /\ serializers["ClassA"].exportName = Str("webpack-source/RawSource")
    /\ globalSerializers[Str("webpack-source/RawSource")] = SerializerA
    /\ "RawSource" \notin DOMAIN serializers


\* a sequence without its functions
WithoutFunctions(seq) == SelectSeq(seq, LAMBDA v : TypeOf(v) # "function")

\* a serialize or deserialize run that began with an empty table at position 0
\* and counted only its own entries
RanOnItsOwn(run) ==
    /\ Len(run.log) >= 1 =>
          /\ run.log[1].posBefore = 0
          /\ run.log[1].tableBefore = <<>>
          /\ \E i \in DOMAIN run.log : run.log[i].from = 1
    /\ run.currentPos = Cardinality(Registering(run.log))

\* the callers that have begun
Begun == {c \in DOMAIN calls : calls[c].phase = "begun"}

=============================================================================
